---- MODULE Spec2Model ----
(***************************************************************************)
(* Model of pynsgp/Fitness/FitnessFunction.py: SymbolicRegressionFitness,  *)
(* the fitness evaluator of the multi-tree NSGP dimensionality-reduction   *)
(* code.                                                                   *)
(*                                                                         *)
(* Numbers.  numpy float64 values are modelled as extended rationals: a    *)
(* record [k, n, d] with k = "fin" (the rational n/d, d > 0, in lowest     *)
(* terms), "nan", "inf" or "ninf".  The arithmetic follows IEEE-754 for    *)
(* the special values (nan propagates, inf - inf = nan, 0 * inf = nan,     *)
(* every comparison with nan is false); finite arithmetic is exact, so     *)
(* rounding and overflow of finite values are not modelled.                *)
(***************************************************************************)
EXTENDS Integers, Sequences, FiniteSets, TLC

----------------------------------------------------------------------------
(* Extended rational arithmetic (numpy float64)                            *)

Abs(i) == IF i < 0 THEN -i ELSE i

RECURSIVE GCD(_, _)
GCD(a, b) == IF b = 0 THEN a ELSE GCD(b, a % b)

\* The element of a one-element set.  Value({e(v) : v \in {x}}) is e(x) with
\* x computed once, however often e uses it: the operators below are written
\* this way because their operands are themselves long computations.
Value(S) == CHOOSE v \in S : TRUE

NaN == [k |-> "nan", n |-> 0, d |-> 1]
PInf == [k |-> "inf", n |-> 0, d |-> 1]
NInf == [k |-> "ninf", n |-> 0, d |-> 1]

\* the rational n/d (d > 0) in lowest terms
Fin(n, d) ==
    Value({[k |-> "fin", n |-> n \div g, d |-> d \div g] : g \in {GCD(Abs(n), d)}})

Num(i) == Fin(i, 1)
Zero == Num(0)

IsNaN(x) == x.k = "nan"
IsZero(x) == x.k = "fin" /\ x.n = 0

Sign(x) ==
    CASE x.k = "inf" -> 1
      [] x.k = "ninf" -> -1
      [] x.k = "fin" -> (IF x.n > 0 THEN 1 ELSE IF x.n < 0 THEN -1 ELSE 0)
      [] OTHER -> 0

FNeg(a) ==
    Value({CASE x.k = "inf" -> NInf
             [] x.k = "ninf" -> PInf
             [] x.k = "fin" -> Fin(-x.n, x.d)
             [] OTHER -> NaN : x \in {a}})

FAdd(a, b) ==
    Value({IF IsNaN(x) \/ IsNaN(y) THEN NaN
           ELSE IF x.k = "fin" /\ y.k = "fin"
                THEN LET l == (x.d \div GCD(x.d, y.d)) * y.d
                     IN  Fin(x.n * (l \div x.d) + y.n * (l \div y.d), l)
           ELSE IF x.k = "fin" THEN y
           ELSE IF y.k = "fin" THEN x
           ELSE IF x.k = y.k THEN x
           ELSE NaN : x \in {a}, y \in {b}})

FSub(x, y) == FAdd(x, FNeg(y))

FMul(a, b) ==
    Value({IF IsNaN(x) \/ IsNaN(y) THEN NaN
           ELSE IF x.k = "fin" /\ y.k = "fin" THEN Fin(x.n * y.n, x.d * y.d)
           ELSE IF Sign(x) * Sign(y) = 0 THEN NaN
           ELSE IF Sign(x) * Sign(y) > 0 THEN PInf
           ELSE NInf : x \in {a}, y \in {b}})

\* numpy true division: x/0 is +-inf (0/0 is nan) with a warning, never an error
FDiv(a, b) ==
    Value({IF IsNaN(x) \/ IsNaN(y) THEN NaN
           ELSE IF x.k # "fin" /\ y.k # "fin" THEN NaN
           ELSE IF x.k # "fin" THEN (IF Sign(x) * Sign(y) >= 0 THEN x ELSE FNeg(x))
           ELSE IF y.k # "fin" THEN Zero
           ELSE IF y.n = 0
                THEN (IF x.n = 0 THEN NaN ELSE IF x.n > 0 THEN PInf ELSE NInf)
           ELSE Fin(x.n * y.d * Sign(y), x.d * Abs(y.n)) : x \in {a}, y \in {b}})

FAbs(a) == Value({IF Sign(x) < 0 THEN FNeg(x) ELSE x : x \in {a}})

FSquare(a) == Value({FMul(x, x) : x \in {a}})

\* x < y on floats: false whenever either side is nan
FLess(a, b) ==
    Value({IF IsNaN(x) \/ IsNaN(y) THEN FALSE
           ELSE IF x.k = "fin" /\ y.k = "fin" THEN x.n * y.d < y.n * x.d
           ELSE IF x.k = y.k THEN FALSE
           ELSE x.k = "ninf" \/ y.k = "inf" : x \in {a}, y \in {b}})

\* largest root looked for by FSqrt
MaxRoot == 20

\* np.sqrt on the values the data produce: exact on squares of rationals
FSqrt(a) ==
    Value({IF IsNaN(x) \/ Sign(x) < 0 THEN NaN
           ELSE IF x.k = "inf" THEN PInf
           ELSE Fin(CHOOSE r \in 0..MaxRoot : r * r = x.n,
                    CHOOSE r \in 1..MaxRoot : r * r = x.d) : x \in {a}})

RECURSIVE FSum(_)
FSum(v) ==
    Value({IF s = <<>> THEN Zero ELSE FAdd(Head(s), FSum(Tail(s))) : s \in {v}})

\* np.mean: the mean of an empty array is nan (with a warning)
FMean(v) == Value({FDiv(FSum(s), Num(Len(s))) : s \in {v}})

\* np.var(o): population variance (ddof = 0)
NpVar(o) ==
    Value({FMean([i \in 1..Len(o) |-> FSquare(FAbs(FSub(o[i], m)))]) : m \in {FMean(o)}})

\* np.cov(t, o)[0, 1]: sample covariance (ddof = 1)
NpCov01(t, o) ==
    Value({FDiv(FSum([i \in 1..Len(o) |-> FMul(FSub(t[i], mt), FSub(o[i], mo))]),
                Num(Len(o) - 1)) : mt \in {FMean(t)}, mo \in {FMean(o)}})

\* v + 1e-10.  A zero variance becomes the positive guard (Eps stands for
\* 1e-10: the covariance over a zero variance is 0, so only Eps > 0 decides
\* the quotient); on a non-zero variance the guard changes the quotient by a
\* relative 1e-10 and is dropped.
Eps == [k |-> "fin", n |-> 1, d |-> 1000000000]
AddEps(a) == Value({IF IsZero(v) THEN Eps ELSE v : v \in {a}})

----------------------------------------------------------------------------
(* Nodes, trees and individuals (pynsgp.Nodes, consumed through             *)
(* GetSubtree, GetOutput, Count_n_nacomp and the fields the evaluator       *)
(* reads and writes)                                                        *)

OpNode(arity, na) == [type |-> "op", arity |-> arity, id |-> 0, na |-> na]
VarNode(id) == [type |-> "var", arity |-> 0, id |-> id, na |-> FALSE]
ConstNode == [type |-> "const", arity |-> 0, id |-> 0, na |-> FALSE]
FeatureNode(id) == [type |-> "feature", arity |-> 0, id |-> id, na |-> FALSE]

Plus == OpNode(2, FALSE)
Times == OpNode(2, FALSE)
Sin == OpNode(1, TRUE)

----------------------------------------------------------------------------
(* Training data and the individuals the search hands to the evaluator     *)

\* X_train: N x 1
X_train == << <<Num(1)>>, <<Num(2)>>, <<Num(3)>>, <<Num(4)>> >>
NumRows == Len(X_train)

\* y_train of a single-output run (ndim 1): y = 2 x + 1
YVector == [ndim |-> 1, data |-> <<Num(3), Num(5), Num(7), Num(9)>>]
\* y_train of a two-output run (ndim 2): columns x and 2 x + 1
YMatrix == [ndim |-> 2,
            data |-> << <<Num(1), Num(3)>>, <<Num(2), Num(5)>>,
                        <<Num(3), Num(7)>>, <<Num(4), Num(9)>> >>]

Vector(v) == [r \in 1..Len(v) |-> Num(v[r])]
Matrix(m) == [r \in 1..Len(m) |-> Vector(m[r])]

\* one expression tree: its GetSubtree() sequence (pre-order) and its
\* Count_n_nacomp()
Tree(nodes, nacomp) == [nodes |-> nodes, nacomp |-> nacomp]

SingleNames == {"s1", "s2", "s3", "s4", "s5"}
MultiNames == {"m1", "m2", "m3", "m4", "m5"}

\* The part of every individual that Evaluate only reads: its trees and what
\* GetOutput(X_train) returns for them (a vector, or an N x num_sup_functions
\* matrix).  Without scaling the errors of s1..s4 are 5, 3, 4, 3 and those of
\* m1..m4 are 51/2, 41/2, 21/2, 21/2; s5 and m5 put out a nan.
Blueprint ==
    [i \in SingleNames \cup MultiNames |->
       CASE i = "s1" -> [tree |-> Tree(<<VarNode(0)>>, 0),
                         output |-> Vector(<<7, 7, 7, 9>>)]
         [] i = "s2" -> [tree |-> Tree(<<Plus, Plus, VarNode(0), VarNode(0), ConstNode>>, 0),
                         output |-> Vector(<<5, 7, 9, 9>>)]
         [] i = "s3" -> [tree |-> Tree(<<Sin, Sin, VarNode(0)>>, 1),
                         output |-> Vector(<<5, 7, 9, 11>>)]
         [] i = "s4" -> [tree |-> Tree(<<Plus, Times, ConstNode, VarNode(0), ConstNode>>, 0),
                         output |-> Vector(<<6, 6, 8, 10>>)]
         [] i = "s5" -> [tree |-> Tree(<<Sin, VarNode(0)>>, 0),
                         output |-> <<NaN, Num(5), Num(7), Num(9)>>]
         [] i = "m1" -> [sups |-> <<Tree(<<Plus, FeatureNode(0), FeatureNode(0)>>, 0),
                                    Tree(<<Times, FeatureNode(1), FeatureNode(0)>>, 0)>>,
                         subs |-> <<Tree(<<VarNode(0)>>, 0),
                                    Tree(<<Plus, VarNode(0), ConstNode>>, 0)>>,
                         output |-> Matrix(<< <<3, 4>>, <<6, 8>>, <<9, 12>>, <<12, 16>> >>)]
         [] i = "m2" -> [sups |-> <<Tree(<<FeatureNode(0)>>, 0), Tree(<<ConstNode>>, 0)>>,
                         subs |-> <<Tree(<<VarNode(0)>>, 0)>>,
                         output |-> Matrix(<< <<1, 0>>, <<2, 0>>, <<3, 0>>, <<4, 0>> >>)]
         [] i = "m3" -> [sups |-> <<Tree(<<ConstNode>>, 0),
                                    Tree(<<Sin, Sin, FeatureNode(1)>>, 1)>>,
                         subs |-> <<Tree(<<Sin, VarNode(0)>>, 0), Tree(<<VarNode(0)>>, 0)>>,
                         output |-> Matrix(<< <<0, 1>>, <<0, 2>>, <<0, 3>>, <<0, 4>> >>)]
         [] i = "m4" -> [sups |-> <<Tree(<<ConstNode>>, 0), Tree(<<FeatureNode(0)>>, 0)>>,
                         subs |-> <<Tree(<<VarNode(0)>>, 0)>>,
                         output |-> Matrix(<< <<0, 1>>, <<0, 2>>, <<0, 3>>, <<0, 4>> >>)]
         [] i = "m5" -> [sups |-> <<Tree(<<Sin, FeatureNode(0)>>, 0), Tree(<<ConstNode>>, 0)>>,
                         subs |-> <<Tree(<<Times, VarNode(0), VarNode(0)>>, 0)>>,
                         output |-> << <<NaN, Num(0)>>, <<Num(2), Num(0)>>,
                                       <<Num(3), Num(0)>>, <<Num(4), Num(0)>> >>]]

\* the fields of a tree that Evaluate may write (defaults 0.0 and 1.0)
Scaling == [ls_a |-> Zero, ls_b |-> Num(1)]

\* a single-tree individual as the search creates it: the root node carries
\* ls_a, ls_b and objectives
SingleTreeIndividual(i) ==
    [name |-> i, kind |-> "single", ls_a |-> Zero, ls_b |-> Num(1), objectives |-> <<>>]

\* a multi-tree individual as the search creates it: every sup_function and
\* sub_function is a tree with scaling fields of its own
MultiTreeIndividual(i) ==
    [name |-> i, kind |-> "multi",
     sup_functions |-> [k \in 1..Len(Blueprint[i].sups) |-> Scaling],
     sub_functions |-> [k \in 1..Len(Blueprint[i].subs) |-> Scaling],
     objectives |-> <<>>]

Population(kind) ==
    IF kind = "multi"
    THEN [i \in MultiNames |-> MultiTreeIndividual(i)]
    ELSE [i \in SingleNames |-> SingleTreeIndividual(i)]

isMultiTreeIndividual(individual) == individual.kind = "multi"
num_sup_functions(individual) == Len(individual.sup_functions)
num_sub_functions(individual) == Len(individual.sub_functions)

\* individual.GetOutput(X_train) of the individual named i; trees are
\* evaluated row by row, so the output on a batch is the batch of the outputs
GetOutput(i) == Blueprint[i].output

\* GetSubtree() of the trees of the multi-tree individual named i
SupSubtrees(i) == [k \in 1..Len(Blueprint[i].sups) |-> Blueprint[i].sups[k].nodes]
SubSubtrees(i) == [k \in 1..Len(Blueprint[i].subs) |-> Blueprint[i].subs[k].nodes]

----------------------------------------------------------------------------
(* Error objective                                                          *)

Names == SingleNames \cup MultiNames

\* the y_train of the run an individual belongs to
TargetsOf(i) == IF i \in MultiNames THEN YMatrix.data ELSE YVector.data

Column(matrix, i) == [r \in 1..Len(matrix) |-> matrix[r][i]]

\* lines 49-53 / 67-71: the affine fit, or a = 0, b = 1 when scaling is off
LinearScaling(scaling, t, output) ==
    IF scaling
    THEN Value({[a |-> FSub(FMean(t), FMul(b, FMean(output))), b |-> b] :
                  b \in {FDiv(NpCov01(t, output), AddEps(NpVar(output)))}})
    ELSE [a |-> Zero, b |-> Num(1)]

\* lines 56-57 / 75-76: np.mean(np.square(t - (a + b * output)))
ScaledError(t, output, ls) ==
    Value({FMean([r \in 1..Len(output) |->
                    FSquare(FSub(t[r], FAdd(a, FMul(b, output[r]))))]) :
             a \in {ls.a}, b \in {ls.b}})

\* lines 48-57 on the numbers: the fit and the error of one output vector
FitOfNormalTree(scaling, t, output) ==
    Value({[ls |-> ls, fit_error |-> ScaledError(t, output, ls)] :
             ls \in {LinearScaling(scaling, t, output)}})

\* lines 63-79 on the numbers: the fit of every channel and the mean error
FitOfMultiTree(scaling, t, output) ==
    Value({[ls |-> [i \in 1..Len(fits) |-> fits[i].ls],
            fit_error |-> FMean([i \in 1..Len(fits) |-> fits[i].fit_error])] :
             fits \in {[i \in 1..Len(output[1]) |->
                          FitOfNormalTree(scaling, Column(t, i), Column(output, i))]}})

\* The training data and the trees do not change during a run, so the fit of
\* an individual is the same at every call: it is tabulated once.
Fits ==
    [i \in Names, scaling \in BOOLEAN |->
       IF i \in MultiNames
       THEN FitOfMultiTree(scaling, TargetsOf(i), GetOutput(i))
       ELSE FitOfNormalTree(scaling, TargetsOf(i), GetOutput(i))]

\* faulty variant of lines 51-55: the fit is stored whether or not scaling is on
StoreScalingAlways(scaling, individual, ls) ==
    [individual EXCEPT !.ls_a = ls.a, !.ls_b = ls.b]

\* lines 51-55: ls_a, ls_b are written only under scaling
StoreScalingOfNormalTree(scaling, individual, ls) ==
    IF scaling
    THEN [individual EXCEPT !.ls_a = ls.a, !.ls_b = ls.b]
    ELSE individual

\* lines 47-59: [fit_error, individual after the call]
EvaluateMeanSquaredErrorOfNormalTree(scaling, individual) ==
    Value({[fit_error |-> fit.fit_error,
            individual |-> StoreScalingOfNormalTree(scaling, individual, fit.ls)] :
             fit \in {Fits[individual.name, scaling]}})

\* lines 69-73 of every loop iteration: each sup_function gets its own fit
StoreScalingOfMultiTree(scaling, individual, ls) ==
    IF scaling
    THEN [individual EXCEPT !.sup_functions =
            [i \in 1..num_sup_functions(individual) |->
               [individual.sup_functions[i] EXCEPT !.ls_a = ls[i].a, !.ls_b = ls[i].b]]]
    ELSE individual

\* lines 61-80: [fit_error, individual after the call]
EvaluateMeanSquaredErrorOfMultiTree(scaling, individual) ==
    Value({[fit_error |-> fit.fit_error,
            individual |-> StoreScalingOfMultiTree(scaling, individual, fit.ls)] :
             fit \in {Fits[individual.name, scaling]}})

\* faulty variant of lines 139-140: a nan error is passed on
PassNaN(fit_error) == fit_error

\* lines 139-140
NanToInf(fit_error) == IF IsNaN(fit_error) THEN PInf ELSE fit_error

\* lines 133-142
EvaluateMeanSquaredError(scaling, individual) ==
    Value({[fit_error |-> NanToInf(e.fit_error), individual |-> e.individual] :
             e \in {IF isMultiTreeIndividual(individual)
                    THEN EvaluateMeanSquaredErrorOfMultiTree(scaling, individual)
                    ELSE EvaluateMeanSquaredErrorOfNormalTree(scaling, individual)}})

----------------------------------------------------------------------------
(* Seed-dependent cost strategies                                           *)

\* batch size of stress_cost (64 in the code at line 29; the training data
\* of the model have NumRows rows)
BatchSize == 2

\* random.seed(seed); random.sample(range(n), k): k distinct row indices,
\* a function of the seed alone
RandomSample(seed, n, k) == [j \in 1..k |-> ((seed + j - 1) % n) + 1]

RECURSIVE PairsFrom(_, _, _)
PairsFrom(i, j, n) ==
    IF i >= n THEN <<>>
    ELSE IF j > n THEN PairsFrom(i + 1, i + 2, n)
    ELSE <<<<i, j>>>> \o PairsFrom(i, j + 1, n)

Euclidean(u, v) == FSqrt(FSum([c \in 1..Len(u) |-> FSquare(FSub(u[c], v[c]))]))

\* scipy pdist(M, 'euclidean'): the distances of the row pairs i < j
pdist(M) ==
    LET P == PairsFrom(1, 2, Len(M))
    IN  [p \in 1..Len(P) |-> Euclidean(M[P[p][1]], M[P[p][2]])]

\* number of Evaluate calls explored
MaxEvals == 4

\* number of concurrent callers explored
NumThreads == 2

\* the values self.evaluations takes
Seeds == 0..(MaxEvals + NumThreads)

\* lines 87-97 on the numbers: the cost of the batch drawn with `seed`
StressOfBatch(output, batch_size, seed) ==
    LET indices_vector == RandomSample(seed, NumRows, batch_size)
    IN  Value({FSum([p \in 1..Len(similarity_matrix_pred) |->
                       FAbs(FSub(similarity_matrix_batch[p], similarity_matrix_pred[p]))]) :
                 similarity_matrix_batch \in
                     {pdist([r \in 1..batch_size |-> X_train[indices_vector[r]]])},
                 similarity_matrix_pred \in
                     {pdist([r \in 1..batch_size |-> output[indices_vector[r]]])}})

\* tabulated once: the cost depends on the individual's trees and the seed only
Stress ==
    [i \in MultiNames, seed \in Seeds |->
       IF BatchSize > NumRows THEN NaN ELSE StressOfBatch(GetOutput(i), BatchSize, seed)]

\* lines 83-99: [ok, cost, seed]; ok is FALSE when the assertion of line 85
\* fails; the seed is self.evaluations as line 87 reads it
stress_cost(individual, batch_size, evals) ==
    IF batch_size > NumRows
    THEN [ok |-> FALSE, cost |-> NaN, seed |-> evals]
    ELSE [ok |-> TRUE, cost |-> Stress[individual.name, evals], seed |-> evals]

\* epochs of the decoder's training run (100 in the code at line 123)
NumEpochs == 3

\* model.fit(...).history["loss"]: one loss per epoch, a function of the
\* latent output and of the seed of the initializer.  The training itself is
\* keras'; the losses here start from the distance of the first latent column
\* to the input and reach their minimum at epoch seed % NumEpochs.
FitHistory(output, seed) ==
    Value({[e \in 1..NumEpochs |->
              FAdd(base, Num((seed % 2) + Abs((e - 1) - (seed % NumEpochs))))] :
             base \in {FMean([r \in 1..Len(output) |->
                                FSquare(FSub(X_train[r][1], output[r][1]))])}})

\* np.argmin (0-based): the first nan if there is one, else the first minimum
ArgMin(h) ==
    IF \E e \in 1..Len(h) : IsNaN(h[e])
    THEN (CHOOSE e \in 1..Len(h) : IsNaN(h[e]) /\ \A f \in 1..(e - 1) : ~IsNaN(h[f])) - 1
    ELSE (CHOOSE e \in 1..Len(h) :
            /\ \A f \in 1..Len(h) : ~FLess(h[f], h[e])
            /\ \A f \in 1..(e - 1) : FLess(h[e], h[f])) - 1

\* Python's h[start:stop] on a list (0-based, negative indices count from the end)
PySlice(h, start, stop) ==
    LET L == Len(h)
        norm(i) == IF i < 0 THEN (IF i + L < 0 THEN 0 ELSE i + L) ELSE (IF i > L THEN L ELSE i)
        lo == norm(start)
        hi == norm(stop)
    IN  IF hi <= lo THEN <<>> ELSE [e \in 1..(hi - lo) |-> h[lo + e]]

\* lines 123-126 on the numbers
DecoderLoss(output, seed) ==
    Value({FMean(PySlice(history, ArgMin(history) - 1, ArgMin(history) + 1)) :
             history \in {FitHistory(output, seed)}})

\* tabulated once: the loss depends on the individual's trees and the seed only
Losses == [i \in MultiNames, seed \in Seeds |-> DecoderLoss(GetOutput(i), seed)]

\* lines 102-131: [loss, seed]
neural_decoder_fitness(individual, seed) ==
    [loss |-> Losses[individual.name, seed], seed |-> seed]

----------------------------------------------------------------------------
(* Complexity and interpretability objectives                               *)

RECURSIVE SumInts(_)
SumInts(s) == IF s = <<>> THEN 0 ELSE Head(s) + SumInts(Tail(s))

isFeatureNode(node) == node.type = "feature"

\* faulty variant of lines 152-159: a FeatureNode counts as one node
CountFeatureAsOne(node, nsub, len_subfunctions) == 1

\* faulty variant of lines 152-159: a FeatureNode counts itself on top of the
\* sub_function it references
CountFeatureAndBody(node, nsub, len_subfunctions) ==
    IF isFeatureNode(node) /\ nsub > 0
    THEN len_subfunctions[node.id + 1] + 1
    ELSE 1

\* lines 152-159: what one node of a sup_function adds to l
InlinedNodeLength(node, nsub, len_subfunctions) ==
    IF isFeatureNode(node) /\ nsub > 0
    THEN len_subfunctions[node.id + 1]
    ELSE 1

\* lines 146-159 on the GetSubtree() sequences of the sup_functions and the
\* sub_functions of a multi-tree individual
EvaluateLengthOfMultiTree(fitness, sups, subs) ==
    LET len_subfunctions == [j \in 1..Len(subs) |-> Len(subs[j])]
    IN  IF fitness = "gp_autoencoder_fitness"
        THEN SumInts(len_subfunctions)
        ELSE SumInts([i \in 1..Len(sups) |->
                        SumInts([k \in 1..Len(sups[i]) |->
                                   InlinedNodeLength(sups[i][k], Len(subs),
                                                     len_subfunctions)])])

\* lines 144-162 on the trees of the individual named i
LengthOf(fit, i) ==
    IF i \in MultiNames
    THEN EvaluateLengthOfMultiTree(fit, SupSubtrees(i), SubSubtrees(i))
    ELSE Len(Blueprint[i].tree.nodes)

\* lines 144-162
EvaluateLength(fit, individual) == LengthOf(fit, individual.name)

\* lines 238-243, in exact arithmetic: 100 * sum(features * coeffs)
ComputeInterpretabilityScore(n_dim, n_vars, n_const, n_nodes, n_ops, na_ops, na_comp) ==
    Fin(-(195041 * n_nodes + 502375 * n_ops + 3351907 * na_ops + 4472121 * na_comp),
        1000000)

\* lines 165-205 on one tree (nodes: GetSubtree(); nacomp: Count_n_nacomp()).
\* A leaf whose name starts with 'x' is a variable reference.
EvaluatePHIsModelOfNormalTree(nodes, nacomp) ==
    LET idx == 1..Len(nodes)
        isVar(n) == n.type \in {"var", "feature"}
        n_ops == Cardinality({k \in idx : nodes[k].arity > 0})
        n_naops == Cardinality({k \in idx : nodes[k].arity > 0 /\ nodes[k].na})
        n_vars == Cardinality({k \in idx : nodes[k].arity = 0 /\ isVar(nodes[k])})
        n_constants == Cardinality({k \in idx : nodes[k].arity = 0 /\ ~isVar(nodes[k])})
        n_dim == Cardinality({nodes[k].id : k \in {k \in idx : nodes[k].arity = 0 /\ isVar(nodes[k])}})
    IN  FNeg(ComputeInterpretabilityScore(n_dim, n_vars, n_constants, Len(nodes),
                                          n_ops, n_naops, nacomp))

EvaluatePHIsModelOfMultiTree(i) ==
    LET sups == Blueprint[i].sups
        subs == Blueprint[i].subs
    IN  FAdd(FSum([k \in 1..Len(sups) |->
                     EvaluatePHIsModelOfNormalTree(sups[k].nodes, sups[k].nacomp)]),
             FSum([j \in 1..Len(subs) |->
                     EvaluatePHIsModelOfNormalTree(subs[j].nodes, subs[j].nacomp)]))

\* tabulated once: the score depends on the individual's trees only
PHIs ==
    [i \in Names |->
       IF i \in MultiNames
       THEN EvaluatePHIsModelOfMultiTree(i)
       ELSE EvaluatePHIsModelOfNormalTree(Blueprint[i].tree.nodes, Blueprint[i].tree.nacomp)]

\* lines 230-236
EvaluatePHIsModel(individual) == PHIs[individual.name]

----------------------------------------------------------------------------
(* The evaluator: SymbolicRegressionFitness                                 *)

VARIABLES
    constructed,                 \* __init__ has run
    y_train,                     \* self.y_train
    use_linear_scaling,          \* self.use_linear_scaling
    use_interpretability_model,  \* self.use_interpretability_model
    fitness,                     \* self.fitness
    elite,                       \* self.elite
    evaluations,                 \* self.evaluations
    pop,                         \* the individuals of the caller, by name
    outcome,                     \* how the last Evaluate call ended
    last,                        \* the last Evaluate call: its individual, before the call
    calls,                       \* history: individual and seed of every Evaluate call
    threads,                     \* concurrent callers: position and locals
    lengths                      \* EvaluateLength of one individual in both modes

vars == <<constructed, y_train, use_linear_scaling, use_interpretability_model,
          fitness, elite, evaluations, pop, outcome, last, calls, threads, lengths>>

evaluator == <<constructed, y_train, use_linear_scaling, use_interpretability_model, fitness>>

RecognizedFitness == {"manifold_fitness", "neural_decoder_fitness",
                      "autoencoder_teacher_fitness", "gp_autoencoder_fitness"}
MSEFitness == {"autoencoder_teacher_fitness", "gp_autoencoder_fitness"}
SeededFitness == {"manifold_fitness", "neural_decoder_fitness"}
\* the strings a caller may pass: the recognized ones and one that is not
FitnessStrings == RecognizedFitness \cup {"mse"}

\* seed entry of a call whose strategy takes no seed
NoSeed == 0

\* self.elite = None
None == [tag |-> "none"]
\* the attribute after `del self.elite`
Deleted == [tag |-> "deleted"]

\* faulty variant of line 45: self.elite = individual, a reference to the
\* caller's object
AliasIndividual(heap, i) == [tag |-> "ref", id |-> i]

\* deepcopy(individual): a value of its own
deepcopy(heap, i) == [tag |-> "copy", val |-> heap[i]]

\* the individual self.elite denotes in the heap `heap`
EliteValue(e, heap) == IF e.tag = "ref" THEN heap[e.id] ELSE e.val

\* faulty variant of line 25: the counter is left as it is
NoIncrement(n) == n

\* line 25
Increment(n) == n + 1

\* faulty variant of line 26: the old objectives are kept
KeepObjectives(individual) == individual

\* line 26
ResetObjectives(individual) == [individual EXCEPT !.objectives = <<>>]

\* lines 35, 41
AppendObjective(individual, obj) == [individual EXCEPT !.objectives = Append(@, obj)]

\* lines 28-33: [outcome, obj1, individual, seed]; no branch assigns obj1 for
\* an unrecognized fitness and line 35 raises UnboundLocalError
EvaluateCost(fit, scaling, individual, evals) ==
    CASE fit = "manifold_fitness" ->
           Value({[outcome |-> IF s.ok THEN "returned" ELSE "AssertionError",
                   obj1 |-> s.cost, individual |-> individual, seed |-> s.seed] :
                    s \in {stress_cost(individual, BatchSize, evals)}})
      [] fit = "neural_decoder_fitness" ->
           Value({[outcome |-> "returned", obj1 |-> d.loss, individual |-> individual,
                   seed |-> d.seed] :
                    d \in {neural_decoder_fitness(individual, evals)}})
      [] fit \in MSEFitness ->
           Value({[outcome |-> "returned", obj1 |-> e.fit_error,
                   individual |-> e.individual, seed |-> NoSeed] :
                    e \in {EvaluateMeanSquaredError(scaling, individual)}})
      [] OTHER ->
           [outcome |-> "UnboundLocalError", obj1 |-> NaN, individual |-> individual,
            seed |-> NoSeed]

\* lines 37-40
EvaluateComplexity(interp, fit, individual) ==
    IF interp THEN EvaluatePHIsModel(individual) ELSE Num(EvaluateLength(fit, individual))

\* lines 26-41 on one individual, with the value `evals` of self.evaluations
\* that lines 31 and 87 read: [outcome, individual, seed]
EvaluateObjectives(fit, scaling, interp, individual, evals) ==
    Value({IF c.outcome # "returned"
           THEN [outcome |-> c.outcome, individual |-> c.individual, seed |-> c.seed]
           ELSE [outcome |-> "returned",
                 individual |-> AppendObjective(AppendObjective(c.individual, c.obj1),
                                                EvaluateComplexity(interp, fit, c.individual)),
                 seed |-> c.seed] :
             c \in {EvaluateCost(fit, scaling, ResetObjectives(individual), evals)}})

\* faulty variant of line 43: `<=` in place of `<`
ReplacesEliteOnTie(e, heap, individual) ==
    \/ e.tag = "none"
    \/ FLess(individual.objectives[1], EliteValue(e, heap).objectives[1])
    \/ /\ ~IsNaN(individual.objectives[1])
       /\ individual.objectives[1] = EliteValue(e, heap).objectives[1]

\* line 43: `not self.elite or individual.objectives[0] < self.elite.objectives[0]`
ReplacesElite(e, heap, individual) ==
    \/ e.tag = "none"
    \/ FLess(individual.objectives[1], EliteValue(e, heap).objectives[1])

\* the run's representation: a vector of targets goes with single trees, a
\* matrix with multi-trees; the seed-dependent strategies need a 2-D output
KindOf(y) == IF y.ndim = 2 THEN "multi" ELSE "single"

\* the configurations a caller can construct an evaluator with
Configurations ==
    {c \in [y : {YVector, YMatrix}, scaling : BOOLEAN, interp : BOOLEAN, fit : FitnessStrings] :
       c.fit \in SeededFitness => KindOf(c.y) = "multi"}

Idle == [stage |-> "idle"]
NoCall == [individual |-> "none"]

Init ==
    /\ constructed = FALSE
    /\ y_train = [ndim |-> 0, data |-> <<>>]
    /\ use_linear_scaling = TRUE
    /\ use_interpretability_model = FALSE
    /\ fitness = "autoencoder_teacher_fitness"
    /\ elite = None
    /\ evaluations = 0
    /\ pop = <<>>
    /\ outcome = "none"
    /\ last = NoCall
    /\ calls = <<>>
    /\ threads = <<>>
    /\ lengths = Idle

\* lines 13-21; the caller's population is the one that fits y_train
Construct(c) ==
    /\ ~constructed
    /\ constructed' = TRUE
    /\ y_train' = c.y
    /\ use_linear_scaling' = c.scaling
    /\ use_interpretability_model' = c.interp
    /\ fitness' = c.fit
    /\ elite' = None
    /\ evaluations' = 0
    /\ pop' = Population(KindOf(c.y))
    /\ UNCHANGED <<outcome, last, calls, threads, lengths>>

\* lines 23-45, one call run to its end
Evaluate(i) ==
    /\ constructed
    /\ Len(calls) < MaxEvals
    /\ \E evals \in {Increment(evaluations)} :
       \E r \in {EvaluateObjectives(fitness, use_linear_scaling,
                                    use_interpretability_model, pop[i], evals)} :
       \E heap \in {[pop EXCEPT ![i] = r.individual]} :
           /\ evaluations' = evals
           /\ pop' = heap
           /\ outcome' = r.outcome
           /\ last' = [individual |-> i, before |-> pop[i]]
           /\ calls' = Append(calls, [individual |-> i, seed |-> r.seed])
           /\ elite' = IF r.outcome = "returned" /\ ReplacesElite(elite, heap, r.individual)
                       THEN deepcopy(heap, i)
                       ELSE elite
    /\ UNCHANGED <<evaluator, threads, lengths>>

\* scaling values some earlier fit left behind
StaleScaling == [ls_a |-> Num(7), ls_b |-> Num(9)]

\* the individual with ls_a, ls_b of its tree, or of every sup_function, set
WithScaling(individual, ls) ==
    IF isMultiTreeIndividual(individual)
    THEN [individual EXCEPT !.sup_functions =
            [k \in 1..num_sup_functions(individual) |-> ls]]
    ELSE [individual EXCEPT !.ls_a = ls.ls_a, !.ls_b = ls.ls_b]

\* the caller overwrites the scaling fields of an individual it had evaluated
OverwriteScaling(i) ==
    /\ constructed
    /\ pop[i].objectives # <<>>
    /\ pop' = [pop EXCEPT ![i] = WithScaling(pop[i], StaleScaling)]
    /\ pop' # pop
    /\ UNCHANGED <<evaluator, elite, evaluations, outcome, last, calls, threads, lengths>>

Next ==
    \/ \E c \in Configurations : Construct(c)
    \/ \E i \in DOMAIN pop : Evaluate(i)
    \/ \E i \in DOMAIN pop : OverwriteScaling(i)

Spec == Init /\ [][Next]_vars

----------------------------------------------------------------------------
(* EvaluateLength on every small multi-tree individual                      *)

\* most nodes in the sup_functions of an individual, all together
MaxSupNodes == 3
\* most nodes in the sub_functions of an individual, all together
MaxSubNodes == 2

\* the nodes a sup_function is built from: a unary and a binary operator, an
\* ordinary leaf, and a FeatureNode for every id a sub_function can have
SupNodeKinds == {Sin, Plus, ConstNode} \cup {FeatureNode(id) : id \in 0..(MaxSubNodes - 1)}

\* operands still missing after the first k nodes of a pre-order sequence
RECURSIVE Pending(_, _)
Pending(nodes, k) == IF k = 0 THEN 1 ELSE Pending(nodes, k - 1) + nodes[k].arity - 1

\* the sequence is the GetSubtree() of one tree
IsTree(nodes) ==
    /\ Len(nodes) >= 1
    /\ \A k \in 1..(Len(nodes) - 1) : Pending(nodes, k) >= 1
    /\ Pending(nodes, Len(nodes)) = 0

SupTrees == {t \in UNION {[1..n -> SupNodeKinds] : n \in 1..MaxSupNodes} : IsTree(t)}

\* a sub_function of n nodes (only its size enters EvaluateLength)
RECURSIVE Chain(_)
Chain(n) == IF n = 1 THEN <<VarNode(0)>> ELSE <<Sin>> \o Chain(n - 1)

SubTrees == {Chain(n) : n \in 1..MaxSubNodes}

\* the sequences of trees of `trees` with at most m nodes all together
RECURSIVE Forests(_, _)
Forests(trees, m) ==
    {<<>>} \cup UNION {{<<t>> \o f : f \in Forests(trees, m - Len(t))} :
                         t \in {u \in trees : Len(u) <= m}}

\* FeatureNode ids are valid: each names a sub_function, if there is any
ValidIds(sups, subs) ==
    \A i \in 1..Len(sups) : \A k \in 1..Len(sups[i]) :
       isFeatureNode(sups[i][k]) /\ Len(subs) > 0 => sups[i][k].id < Len(subs)

\* the multi-tree individuals EvaluateLength is applied to
Individuals ==
    {[stage |-> "drawn", sups |-> sups, subs |-> subs, measured |-> {},
      inlined |-> 0, once |-> 0] :
       <<sups, subs>> \in {p \in (Forests(SupTrees, MaxSupNodes) \ {<<>>})
                                   \X Forests(SubTrees, MaxSubNodes) :
                              ValidIds(p[1], p[2])}}

InitLength ==
    /\ constructed = FALSE
    /\ y_train = [ndim |-> 0, data |-> <<>>]
    /\ use_linear_scaling = TRUE
    /\ use_interpretability_model = FALSE
    /\ fitness = "autoencoder_teacher_fitness"
    /\ elite = None
    /\ evaluations = 0
    /\ pop = <<>>
    /\ outcome = "none"
    /\ last = NoCall
    /\ calls = <<>>
    /\ threads = <<>>
    /\ lengths \in Individuals

\* EvaluateLength of the individual under an evaluator whose fitness is fit
MeasureLength(fit) ==
    /\ lengths.stage = "drawn"
    /\ IF fit = "gp_autoencoder_fitness"
       THEN /\ "once" \notin lengths.measured
            /\ lengths' = [lengths EXCEPT
                             !.measured = @ \cup {"once"},
                             !.once = EvaluateLengthOfMultiTree(fit, lengths.sups, lengths.subs)]
       ELSE /\ "inlined" \notin lengths.measured
            /\ lengths' = [lengths EXCEPT
                             !.measured = @ \cup {"inlined"},
                             !.inlined = EvaluateLengthOfMultiTree(fit, lengths.sups, lengths.subs)]
    /\ UNCHANGED <<evaluator, elite, evaluations, pop, outcome, last, calls, threads>>

NextLength == \E fit \in RecognizedFitness : MeasureLength(fit)

SpecLength == InitLength /\ [][NextLength]_vars

----------------------------------------------------------------------------
(* Evaluate called from several threads on one evaluator.  The code takes   *)
(* no lock; the interpreter may switch threads between any two reads or     *)
(* writes of an attribute of self.  Every thread evaluates an individual of *)
(* its own.                                                                 *)

Threads == 1..NumThreads

\* the ways to hand distinct individuals to the threads
Assignments(names) ==
    {a \in [Threads -> names] : \A t, u \in Threads : t # u => a[t] # a[u]}

InitPar ==
    \E c \in {d \in Configurations : d.fit \in RecognizedFitness} :
       /\ constructed = TRUE
       /\ y_train = c.y
       /\ use_linear_scaling = c.scaling
       /\ use_interpretability_model = c.interp
       /\ fitness = c.fit
       /\ elite = None
       /\ evaluations = 0
       /\ pop = Population(KindOf(c.y))
       /\ outcome = "none"
       /\ last = NoCall
       /\ calls = <<>>
       /\ lengths = Idle
       /\ \E a \in Assignments(DOMAIN Population(KindOf(c.y))) :
             threads = [t \in Threads |->
                          [pc |-> "load", individual |-> a[t], reg |-> 0,
                           seed |-> NoSeed, outcome |-> "running"]]

Goto(t, pc) == [threads EXCEPT ![t].pc = pc]
Raise(t, error) == [threads EXCEPT ![t].pc = "done", ![t].outcome = error]

\* line 25, the read of self.evaluations
LoadCounter(t) ==
    /\ threads[t].pc = "load"
    /\ threads' = [threads EXCEPT ![t].pc = "store", ![t].reg = evaluations]
    /\ UNCHANGED <<evaluator, elite, evaluations, pop, outcome, last, calls, lengths>>

\* line 25, the write of self.evaluations
StoreCounter(t) ==
    /\ threads[t].pc = "store"
    /\ evaluations' = Increment(threads[t].reg)
    /\ threads' = Goto(t, "objectives")
    /\ UNCHANGED <<evaluator, elite, pop, outcome, last, calls, lengths>>

\* lines 26-41: they touch the thread's individual and read self.evaluations
\* once, for the seed (line 31 or 87)
ComputeObjectives(t) ==
    /\ threads[t].pc = "objectives"
    /\ \E i \in {threads[t].individual} :
       \E r \in {EvaluateObjectives(fitness, use_linear_scaling,
                                    use_interpretability_model, pop[i], evaluations)} :
           /\ pop' = [pop EXCEPT ![i] = r.individual]
           /\ calls' = Append(calls, [individual |-> i, seed |-> r.seed])
           /\ threads' = IF r.outcome = "returned"
                         THEN [threads EXCEPT ![t].pc = "test", ![t].seed = r.seed]
                         ELSE Raise(t, r.outcome)
    /\ UNCHANGED <<evaluator, elite, evaluations, outcome, last, lengths>>

\* line 43, `not self.elite`: reading a deleted attribute raises AttributeError
TestElite(t) ==
    /\ threads[t].pc = "test"
    /\ threads' = CASE elite = Deleted -> Raise(t, "AttributeError")
                    [] elite = None -> Goto(t, "del")
                    [] OTHER -> Goto(t, "compare")
    /\ UNCHANGED <<evaluator, elite, evaluations, pop, outcome, last, calls, lengths>>

\* line 43, `individual.objectives[0] < self.elite.objectives[0]`: a second
\* read of self.elite
CompareElite(t) ==
    /\ threads[t].pc = "compare"
    /\ threads' = IF elite = Deleted
                  THEN Raise(t, "AttributeError")
                  ELSE IF ReplacesElite(elite, pop, pop[threads[t].individual])
                       THEN Goto(t, "del")
                       ELSE [threads EXCEPT ![t].pc = "done", ![t].outcome = "returned"]
    /\ UNCHANGED <<evaluator, elite, evaluations, pop, outcome, last, calls, lengths>>

\* line 44: deleting a deleted attribute raises AttributeError
DelElite(t) ==
    /\ threads[t].pc = "del"
    /\ IF elite = Deleted
       THEN /\ threads' = Raise(t, "AttributeError")
            /\ UNCHANGED elite
       ELSE /\ threads' = Goto(t, "assign")
            /\ elite' = Deleted
    /\ UNCHANGED <<evaluator, evaluations, pop, outcome, last, calls, lengths>>

\* line 45
AssignElite(t) ==
    /\ threads[t].pc = "assign"
    /\ elite' = deepcopy(pop, threads[t].individual)
    /\ threads' = [threads EXCEPT ![t].pc = "done", ![t].outcome = "returned"]
    /\ UNCHANGED <<evaluator, evaluations, pop, outcome, last, calls, lengths>>

NextPar ==
    \E t \in Threads :
       \/ LoadCounter(t)
       \/ StoreCounter(t)
       \/ ComputeObjectives(t)
       \/ TestElite(t)
       \/ CompareElite(t)
       \/ DelElite(t)
       \/ AssignElite(t)

SpecPar == InitPar /\ [][NextPar]_vars

----------------------------------------------------------------------------
(* Properties                                                               *)

\* the individual named i has been handed to Evaluate
Evaluated(i) == \E k \in 1..Len(calls) : calls[k].individual = i

\* the step is an Evaluate call
EvaluateStep == calls' # calls

\* C1: an Evaluate call that returns replaces the elite by a copy of the
\* individual it evaluated if the elite is absent or the individual's
\* objectives[0] is strictly less than the elite's, and leaves the elite as it
\* is otherwise (a tie does not replace); nothing else changes the elite.
\* After the costs 5, 3, 4, 3 the elite is the copy of the second individual.
C1_EliteReplacement ==
    /\ [](/\ Len(calls) = 4
          /\ fitness \in MSEFitness
          /\ ~use_linear_scaling
          /\ [k \in 1..4 |-> calls[k].individual] = <<"s1", "s2", "s3", "s4">>
          => /\ elite.tag = "copy"
             /\ elite.val.name = "s2"
             /\ elite.val.objectives[1] = Num(3))
    /\ [][IF EvaluateStep /\ outcome' = "returned"
          THEN LET individual == pop'[last'.individual]
               IN  IF \/ elite.tag = "none"
                      \/ FLess(individual.objectives[1], elite.val.objectives[1])
                   THEN elite' = [tag |-> "copy", val |-> individual]
                   ELSE elite' = elite
          ELSE elite' = elite]_vars

\* the costs 5, 3, 4, 3 were evaluated in this order and the elite is the
\* second individual
C1_Witness ==
    /\ Len(calls) = 4
    /\ fitness \in MSEFitness
    /\ ~use_linear_scaling
    /\ [k \in 1..4 |-> calls[k].individual] = <<"s1", "s2", "s3", "s4">>
    /\ [k \in 1..4 |-> pop[calls[k].individual].objectives[1]]
         = <<Num(5), Num(3), Num(4), Num(3)>>
    /\ elite.tag = "copy"
    /\ elite.val.name = "s2"

C3_NanBecomesInfinity ==
    constructed /\ fitness \in MSEFitness =>
       /\ outcome \in {"none", "returned"}
       /\ \A i \in DOMAIN pop :
             Evaluated(i) =>
                /\ ~IsNaN(pop[i].objectives[1])
                /\ pop[i].objectives[1] =
                      IF IsNaN(Fits[i, use_linear_scaling].fit_error)
                      THEN PInf
                      ELSE Fits[i, use_linear_scaling].fit_error

\* the tree with a nan in its output was evaluated and got +infinity
C3_Witness ==
    /\ constructed
    /\ fitness \in MSEFitness
    /\ outcome = "returned"
    /\ last.individual = "s5"
    /\ IsNaN(Fits["s5", use_linear_scaling].fit_error)
    /\ pop["s5"].objectives[1] = PInf

\* C4: the counter is 0 at construction and is the number of Evaluate calls
\* made since; the seed a seed-dependent strategy uses in the k-th call is k.
C4_CounterAndSeeds ==
    /\ evaluations = Len(calls)
    /\ constructed /\ fitness \in SeededFitness =>
          \A k \in 1..Len(calls) : calls[k].seed = k

\* three calls under a seed-dependent strategy
C4_Witness ==
    /\ constructed
    /\ fitness \in SeededFitness
    /\ evaluations = 3
    /\ calls[3].seed = 3

\* C5: an evaluator is never constructed with an unrecognized fitness, and no
\* Evaluate call fails on the mode.
C5_RejectedAtConstruction ==
    /\ constructed => fitness \in RecognizedFitness
    /\ outcome # "UnboundLocalError"

\* the positions of the nodes of the sup_functions
Positions(sups) == UNION {{<<i, k>> : k \in 1..Len(sups[i])} : i \in 1..Len(sups)}

\* how often the sup_functions reference sub_function j (1-based)
RefCount(sups, j) ==
    Cardinality({p \in Positions(sups) :
                   isFeatureNode(sups[p[1]][p[2]]) /\ sups[p[1]][p[2]].id = j - 1})

BothMeasured == lengths.stage = "drawn" /\ lengths.measured = {"inlined", "once"}

\* C6 as stated: the inlined length is at least the counted-once length, with
\* equality only when every sub_function is referenced at most once.
C6_InlinedAtLeastOnce ==
    BothMeasured =>
       /\ lengths.inlined >= lengths.once
       /\ lengths.inlined = lengths.once =>
             \A j \in 1..Len(lengths.subs) : RefCount(lengths.sups, j) <= 1

\* C6, amended: when every sub_function is referenced at least once, the
\* inlined length is at least the counted-once length, with equality only
\* when every sub_function is referenced exactly once.
C6_InlinedAtLeastOnceWhenReferenced ==
    BothMeasured /\ (\A j \in 1..Len(lengths.subs) : RefCount(lengths.sups, j) >= 1) =>
       /\ lengths.inlined >= lengths.once
       /\ lengths.inlined = lengths.once =>
             \A j \in 1..Len(lengths.subs) : RefCount(lengths.sups, j) = 1

\* a sub_function referenced twice, none unreferenced: inlined exceeds once
C6_Witness ==
    /\ BothMeasured
    /\ Len(lengths.subs) >= 1
    /\ \A j \in 1..Len(lengths.subs) : RefCount(lengths.sups, j) >= 1
    /\ \E j \in 1..Len(lengths.subs) : RefCount(lengths.sups, j) = 2
    /\ lengths.inlined > lengths.once

AllDone == \A t \in DOMAIN threads : threads[t].pc = "done"

\* C7: once the concurrent calls have all finished, every call has returned,
\* the counter is the number of calls, no two calls of a seed-dependent
\* strategy used the same seed, and no individual is cheaper than the elite.
C7_Serialized ==
    threads # <<>> /\ AllDone =>
       /\ \A t \in Threads : threads[t].outcome = "returned"
       /\ evaluations = NumThreads
       /\ fitness \in SeededFitness =>
             \A t, u \in Threads : t # u => threads[t].seed # threads[u].seed
       /\ elite.tag = "copy"
       /\ \A t \in Threads :
             ~FLess(pop[threads[t].individual].objectives[1], elite.val.objectives[1])

\* the replacement condition of line 43 holds in this step
ReplacementFires ==
    /\ EvaluateStep
    /\ outcome' = "returned"
    /\ \/ elite.tag = "none"
       \/ FLess(pop'[last'.individual].objectives[1],
                EliteValue(elite, pop).objectives[1])

\* C8: once there is an elite, what it holds changes in no step in which the
\* replacement condition does not fire, whatever the step does to the
\* individuals.
C8_EliteIsSnapshot ==
    [][elite.tag \notin {"none", "deleted"} /\ ~ReplacementFires
       => EliteValue(elite', pop') = EliteValue(elite, pop)]_vars

\* the individual the elite was copied from has changed since
C8_Witness ==
    /\ elite.tag = "copy"
    /\ pop[elite.val.name] # elite.val
    /\ pop[elite.val.name].objectives # <<>>

\* the length of the inlined mode, from the reference counts
InlinedLength(sups, subs) ==
    IF Len(subs) > 0
    THEN SumInts([j \in 1..Len(subs) |-> RefCount(sups, j) * Len(subs[j])])
         + Cardinality({p \in Positions(sups) : ~isFeatureNode(sups[p[1]][p[2]])})
    ELSE Cardinality(Positions(sups))

\* C9: in inlined mode a sub_function referenced r times adds r times its
\* size, every node that is no FeatureNode adds 1, and without sub_functions
\* every node adds 1.
C9_InlinedFormula ==
    lengths.stage = "drawn" /\ "inlined" \in lengths.measured =>
       lengths.inlined = InlinedLength(lengths.sups, lengths.subs)

\* one sub_function referenced twice and one never
C9_Witness ==
    /\ lengths.stage = "drawn"
    /\ "inlined" \in lengths.measured
    /\ Len(lengths.subs) = 2
    /\ \E j, h \in 1..2 :
          /\ RefCount(lengths.sups, j) = 2
          /\ RefCount(lengths.sups, h) = 0
          /\ lengths.inlined = 2 * Len(lengths.subs[j]) + 1

\* the fields of an individual that hold a linear scaling
ScalingFields(individual) ==
    IF isMultiTreeIndividual(individual)
    THEN <<individual.sup_functions, individual.sub_functions>>
    ELSE <<individual.ls_a, individual.ls_b>>

\* C10: an Evaluate call changes no other individual; without
\* use_linear_scaling it leaves every ls_a, ls_b of its individual as it was;
\* with use_linear_scaling in an MSE-based mode it stores the fit on the
\* tree, or on every sup_function, and leaves the sub_functions as they were.
C10_ScalingFrame ==
    [][EvaluateStep =>
         LET i == last'.individual
         IN  /\ \A j \in DOMAIN pop \ {i} : pop'[j] = pop[j]
             /\ ~use_linear_scaling \/ fitness \notin MSEFitness =>
                   ScalingFields(pop'[i]) = ScalingFields(pop[i])
             /\ use_linear_scaling /\ fitness \in MSEFitness =>
                   IF isMultiTreeIndividual(pop[i])
                   THEN /\ pop'[i].sub_functions = pop[i].sub_functions
                        /\ pop'[i].sup_functions =
                              [k \in 1..num_sup_functions(pop[i]) |->
                                 [ls_a |-> Fits[i, TRUE].ls[k].a,
                                  ls_b |-> Fits[i, TRUE].ls[k].b]]
                   ELSE /\ pop'[i].ls_a = Fits[i, TRUE].ls.a
                        /\ pop'[i].ls_b = Fits[i, TRUE].ls.b]_vars

\* an evaluation without scaling of a tree that held other scaling values:
\* they are still there, and the error is the one of a = 0, b = 1
C10_Witness ==
    /\ constructed
    /\ ~use_linear_scaling
    /\ fitness \in MSEFitness
    /\ outcome = "returned"
    /\ last.individual \in SingleNames
    /\ last.before.ls_a = StaleScaling.ls_a
    /\ pop[last.individual].ls_a = StaleScaling.ls_a
    /\ pop[last.individual].ls_b = StaleScaling.ls_b
    /\ pop[last.individual].objectives[1] = Fits[last.individual, FALSE].fit_error

====
